---- MODULE Spec2Model ----
(***************************************************************************)
(* Fuel-Route-Optimizer: model of routes/services/fuel_optimizer.py.       *)
(*                                                                         *)
(* Geometry.  Every coordinate of the model lies on one meridian, so a     *)
(* position is one integer: miles north of a reference parallel.  On a     *)
(* meridian the geodesic distance is the absolute difference and the       *)
(* linear interpolation of latitude done by _advance_along_route is exact; *)
(* the longitude is the same everywhere and is left out of the records.    *)
(*                                                                         *)
(* Numbers.  Distances are integer miles.  Prices, gallons and costs are   *)
(* exact rationals <<num, den>> with den > 0 (Python floats in the code);  *)
(* kept in lowest terms; round(x, 2) yields a whole number of hundredths.  *)
(*                                                                         *)
(* Text.  A CSV text field is a sequence of one-character strings, so      *)
(* str.strip() and str.upper() are computed, not assumed.                  *)
(***************************************************************************)
EXTENDS Integers, Sequences, FiniteSets, TLC

(***************************************************************************)
(* Bounds of the model                                                     *)
(***************************************************************************)
MaxPoints == 3
MaxRows == 2
MaxRequests == 2

(***************************************************************************)
(* Program constants                                                       *)
(***************************************************************************)
max_range_miles == 500
mpg == 10
state_route_miles == 250
state_radius_miles == 250

None == "None"

(***************************************************************************)
(* Rationals                                                               *)
(***************************************************************************)
RECURSIVE Gcd(_, _)
Gcd(a, b) == IF b = 0 THEN a ELSE Gcd(b, a % b)

\* the rational n/d in lowest terms (n >= 0, d > 0)
Rat(n, d) == LET g == Gcd(n, d) IN <<n \div g, d \div g>>
RAdd(a, b) ==
    LET g == Gcd(a[2], b[2])
    IN  Rat(a[1] * (b[2] \div g) + b[1] * (a[2] \div g), (a[2] \div g) * b[2])
RMul(a, b) ==
    LET x == Rat(a[1], b[2])
        y == Rat(b[1], a[2])
    IN  <<x[1] * y[1], x[2] * y[2]>>
RDivInt(a, k) == RMul(a, <<1, k>>)
RLess(a, b) == a[1] * b[2] < b[1] * a[2]
RLeq(a, b) == a[1] * b[2] <= b[1] * a[2]

\* round(x, 2) for x >= 0: nearest hundredth, a tie going to the even one
Round2(a) ==
    LET x == 100 * a[1]
        q == x \div a[2]
        r == x % a[2]
    IN  IF 2 * r < a[2] THEN Rat(q, 100)
        ELSE IF 2 * r > a[2] THEN Rat(q + 1, 100)
        ELSE IF q % 2 = 0 THEN Rat(q, 100) ELSE Rat(q + 1, 100)

(***************************************************************************)
(* Text                                                                    *)
(***************************************************************************)
UpperChar(c) ==
    CASE c = "t" -> "T" [] c = "x" -> "X" [] c = "o" -> "O" [] c = "k" -> "K"
      [] c = "s" -> "S" [] OTHER -> c

Upper(s) == [i \in 1..Len(s) |-> UpperChar(s[i])]

RECURSIVE LStrip(_)
LStrip(s) == IF s # <<>> /\ Head(s) = " " THEN LStrip(Tail(s)) ELSE s

RECURSIVE RStrip(_)
RStrip(s) ==
    IF s # <<>> /\ s[Len(s)] = " " THEN RStrip(SubSeq(s, 1, Len(s) - 1)) ELSE s

Strip(s) == RStrip(LStrip(s))

(***************************************************************************)
(* Geometry and the state table                                            *)
(***************************************************************************)
Abs(x) == IF x < 0 THEN -x ELSE x

\* geopy.distance.geodesic(a, b).miles
geodesic(a, b) == Abs(a - b)

\* us_state_coords.US_STATE_COORDS: state code -> reference coordinate
US_STATE_COORDS ==
    (<<"T", "X">> :> 0) @@ (<<"O", "K">> :> 400) @@ (<<"K", "S">> :> 1000)

Min(a, b) == IF a < b THEN a ELSE b
Max(a, b) == IF a > b THEN a ELSE b

(***************************************************************************)
(* _load_raw_stations_data: the rows of the price table, text stripped     *)
(***************************************************************************)
LoadRows(file) ==
    [i \in 1..Len(file) |->
        [name    |-> Strip(file[i].name),
         city    |-> Strip(file[i].city),
         state   |-> Strip(file[i].state),
         address |-> Strip(file[i].address),
         price   |-> file[i].price]]

(***************************************************************************)
(* _get_stations_near_route                                                *)
(***************************************************************************)
\* route_points[::step], plus the last point when the slice's last element
\* differs from it
RouteSample(pts) ==
    LET step   == Max(1, Len(pts) \div 15)
        n      == IF pts = <<>> THEN 0 ELSE ((Len(pts) - 1) \div step) + 1
        sliced == [k \in 1..n |-> pts[1 + (k - 1) * step]]
    IN  IF pts # <<>> /\ sliced[n] # pts[Len(pts)]
        THEN Append(sliced, pts[Len(pts)])
        ELSE sliced

StatesNearRoute(pts) ==
    LET sample == RouteSample(pts)
    IN  {st \in DOMAIN US_STATE_COORDS :
            \E i \in 1..Len(sample) :
                geodesic(US_STATE_COORDS[st], sample[i]) <= state_route_miles}

\* position of key k in the insertion-ordered dict by_key, 0 when absent
KeyIndex(by_key, k) ==
    IF \E i \in 1..Len(by_key) : by_key[i].key = k
    THEN CHOOSE i \in 1..Len(by_key) : by_key[i].key = k
    ELSE 0

\* the comparison reversed: the dearer duplicate wins
ReplacesEntry_Reversed(new_price, old_price) == RLess(old_price, new_price)

\* station['price'] < by_key[key]['price']
ReplacesEntry(new_price, old_price) == RLess(new_price, old_price)

\* one pass of the loop over raw_stations (lines 74-90)
DedupStep(by_key, station, near) ==
    LET state == Strip(Upper(station.state))
    IN  IF state \notin near \/ state \notin DOMAIN US_STATE_COORDS
        THEN by_key
        ELSE LET coords == US_STATE_COORDS[state]
                 city   == Strip(station.city)
                 key    == <<station.name, city, state>>
                 entry  == [name     |-> station.name,
                            latitude |-> coords,
                            price    |-> station.price,
                            city     |-> station.city,
                            state    |-> state]
                 at     == KeyIndex(by_key, key)
             IN  IF at = 0
                 THEN Append(by_key, [key |-> key, entry |-> entry])
                 ELSE IF ReplacesEntry(station.price, by_key[at].entry.price)
                      THEN [by_key EXCEPT ![at] = [key |-> key, entry |-> entry]]
                      ELSE by_key

RECURSIVE DedupFold(_, _, _, _)
DedupFold(raw, i, by_key, near) ==
    IF i > Len(raw) THEN by_key
    ELSE DedupFold(raw, i + 1, DedupStep(by_key, raw[i], near), near)

GetStationsNearRoute(raw, pts) ==
    LET by_key == DedupFold(raw, 1, <<>>, StatesNearRoute(pts))
    IN  [i \in 1..Len(by_key) |-> by_key[i].entry]

(***************************************************************************)
(* _advance_along_route; start_index and the returned index count from 0   *)
(***************************************************************************)
\* the endpoints exchanged in the difference: the position moves backwards
Interpolate_Backwards(current, next, remaining_distance, segment_distance) ==
    IF segment_distance > 0
    THEN current + ((current - next) * remaining_distance) \div segment_distance
    ELSE current

\* fraction = remaining_distance / segment_distance if segment_distance > 0
\* else 0; position = current + (next - current) * fraction
Interpolate(current, next, remaining_distance, segment_distance) ==
    IF segment_distance > 0
    THEN current + ((next - current) * remaining_distance) \div segment_distance
    ELSE current

RECURSIVE AdvanceLoop(_, _, _, _)
AdvanceLoop(pts, current_index, distance_traveled, target_distance) ==
    IF current_index < Len(pts) - 1
    THEN LET current_position == pts[current_index + 1]
             next_position    == pts[current_index + 2]
             segment          == geodesic(current_position, next_position)
         IN  IF distance_traveled + segment >= target_distance
             THEN [pos  |-> Interpolate(current_position, next_position,
                                target_distance - distance_traveled, segment),
                   idx  |-> current_index,
                   dist |-> target_distance]
             ELSE AdvanceLoop(pts, current_index + 1,
                              distance_traveled + segment, target_distance)
    ELSE [pos |-> pts[Len(pts)], idx |-> Len(pts) - 1, dist |-> distance_traveled]

AdvanceAlongRoute(pts, start_index, target_distance) ==
    AdvanceLoop(pts, start_index, 0, target_distance)

(***************************************************************************)
(* _find_nearby_stations                                                   *)
(***************************************************************************)
StatesNearPosition(position) ==
    {st \in DOMAIN US_STATE_COORDS :
        geodesic(US_STATE_COORDS[st], position) <= state_radius_miles}

\* an unstable sort: s goes before the elements of equal price
RECURSIVE InsertByPrice_Unstable(_, _)
InsertByPrice_Unstable(sorted, s) ==
    IF sorted = <<>> THEN <<s>>
    ELSE IF RLeq(s.price, Head(sorted).price) THEN <<s>> \o sorted
    ELSE <<Head(sorted)>> \o InsertByPrice_Unstable(Tail(sorted), s)

\* list.sort(key=price) is stable: s goes after every element whose price
\* is not greater
RECURSIVE InsertByPrice(_, _)
InsertByPrice(sorted, s) ==
    IF sorted = <<>> THEN <<s>>
    ELSE IF RLess(s.price, Head(sorted).price) THEN <<s>> \o sorted
    ELSE <<Head(sorted)>> \o InsertByPrice(Tail(sorted), s)

RECURSIVE SortByPrice(_, _)
SortByPrice(list, i) ==
    IF i = 0 THEN <<>>
    ELSE InsertByPrice(SortByPrice(list, i - 1), list[i])

FindNearbyStations(stations, position) ==
    LET near    == StatesNearPosition(position)
        matches == SelectSeq(stations, LAMBDA s : s.state \in near)
        withd   == [i \in 1..Len(matches) |->
                      [name     |-> matches[i].name,
                       latitude |-> matches[i].latitude,
                       price    |-> matches[i].price,
                       city     |-> matches[i].city,
                       state    |-> matches[i].state,
                       distance_from_route |->
                           geodesic(position, matches[i].latitude)]]
    IN  SortByPrice(withd, Len(withd))

\* min(nearby_stations, key=price): the first element of minimum price
RECURSIVE MinByPrice(_, _)
MinByPrice(list, i) ==
    IF i = 1 THEN list[1]
    ELSE LET best == MinByPrice(list, i - 1)
         IN  IF RLess(list[i].price, best.price) THEN list[i] ELSE best

BestStation(nearby) == MinByPrice(nearby, Len(nearby))

\* sum(s['price'] for s in stations) / len(stations)
RECURSIVE SumPrices(_, _)
SumPrices(stations, i) ==
    IF i = 0 THEN Rat(0, 1)
    ELSE RAdd(SumPrices(stations, i - 1), stations[i].price)

\* the sum of the prices, never divided by the count
AveragePrice_Sum(stations) ==
    IF stations # <<>>
    THEN SumPrices(stations, Len(stations))
    ELSE Rat(35, 10)

AveragePrice(stations) ==
    IF stations # <<>>
    THEN RDivInt(SumPrices(stations, Len(stations)), Len(stations))
    ELSE Rat(35, 10)

(***************************************************************************)
(* find_optimal_fuel_stops: the pieces of the planning loop                *)
(***************************************************************************)
\* a loop that forgets the tank: drive the whole rest of the trip
DistanceToNextFuel_IgnoresRange(remaining, total, covered) == total - covered

\* line 127
DistanceToNextFuel(remaining, total, covered) == Min(remaining, total - covered)

\* a refuel test that is off by one and forgets that the trip is over
NeedsRefuel_AtTripEnd(covered, total, remaining) == remaining <= 100

\* line 141
NeedsRefuel(covered, total, remaining) == covered < total /\ remaining < 100

\* miles taken for gallons
GallonsNeeded_NoMpg(remaining) == Rat(max_range_miles - remaining, 1)

\* lines 150 and 175
GallonsNeeded(remaining) == Rat(max_range_miles - remaining, mpg)

\* lines 151 and 176
FuelCost(gallons, price) == RMul(gallons, price)

\* multiplying by the fuel economy instead of dividing
TotalGallons_Times(total) == Rat(total * mpg, 1)

\* line 197
TotalGallons(total) == Rat(total, mpg)

EstimatedStation ==
    <<"E", "s", "t", "i", "m", "a", "t", "e", "d", " ",
      "S", "t", "a", "t", "i", "o", "n">>
Unknown == <<"U", "n", "k", "n", "o", "w", "n">>

\* lines 153-165
StationStop(best, remaining, covered) ==
    [station_name      |-> best.name,
     location          |-> [latitude |-> best.latitude,
                            city     |-> best.city,
                            state    |-> best.state],
     price_per_gallon  |-> best.price,
     gallons_purchased |-> Round2(GallonsNeeded(remaining)),
     cost              |-> Round2(FuelCost(GallonsNeeded(remaining), best.price)),
     distance_from_start |-> Round2(Rat(covered, 1))]

\* lines 178-191
EstimatedStop(average_price, position, remaining, covered) ==
    [station_name      |-> EstimatedStation,
     location          |-> [latitude |-> position,
                            city     |-> Unknown,
                            state    |-> Unknown],
     price_per_gallon  |-> Round2(average_price),
     gallons_purchased |-> Round2(GallonsNeeded(remaining)),
     cost              |-> Round2(FuelCost(GallonsNeeded(remaining), average_price)),
     distance_from_start |-> Round2(Rat(covered, 1)),
     note              |-> "No stations found nearby, using estimated price"]

(***************************************************************************)
(* Inputs                                                                  *)
(***************************************************************************)
Coords == {0, 440, 600, 1200}
Totals == {0, 400, 450, 1200}

RECURSIVE SeqsUpTo(_, _)
SeqsUpTo(S, n) ==
    IF n = 0 THEN {<<>>}
    ELSE LET shorter == SeqsUpTo(S, n - 1)
         IN  shorter \cup {Append(q, x) : q \in shorter, x \in S}

Routes == SeqsUpTo(Coords, MaxPoints)

Row(name, city, state, price) ==
    [name |-> name, city |-> city, state |-> state, address |-> <<>>,
     price |-> price]

Rows ==
    { Row(<<"A">>, <<"X">>,      <<"T", "X">>,      Rat(3259, 1000)),
      Row(<<"A">>, <<"X">>,      <<"t", "x", " ">>, Rat(300, 100)),
      Row(<<"A">>, <<" ", "X">>, <<"O", "K">>,      Rat(3499, 1000)),
      Row(<<"A">>, <<"X">>,      <<"O", "K">>,      Rat(3259, 1000)),
      Row(<<"B">>, <<"X">>,      <<"o", "k">>,      Rat(300, 100)),
      Row(<<"B">>, <<"Y">>,      <<"O", "K">>,      Rat(3259, 1000)),
      Row(<<"A">>, <<"X">>,      <<"K", "S">>,      Rat(3499, 1000)) }

Files == SeqsUpTo(Rows, MaxRows)

(***************************************************************************)
(* State                                                                   *)
(***************************************************************************)
VARIABLES
    csv,                  \* the rows of settings.FUEL_PRICES_CSV
    raw_stations_data,    \* self.raw_stations_data
    fuel_stations,        \* self.fuel_stations
    route_points,         \* arguments of find_optimal_fuel_stops
    total_distance_miles,
    pc,                   \* "idle", "loop", "check", "done", "raised"
    fuel_stops,           \* locals of find_optimal_fuel_stops
    total_fuel_cost,
    remaining_range,
    distance_covered,
    route_index,
    target_position,
    segment_distance,
    result,               \* the returned dict, or the exception raised
    file_reads            \* times settings.FUEL_PRICES_CSV was opened (line 31)

vars == <<csv, raw_stations_data, fuel_stations, route_points,
          total_distance_miles, pc, fuel_stops, total_fuel_cost,
          remaining_range, distance_covered, route_index, target_position,
          segment_distance, result, file_reads>>

locals == <<fuel_stops, total_fuel_cost, remaining_range, distance_covered,
            route_index, target_position, segment_distance>>

\* FuelOptimizer.__init__, before any request
Init ==
    /\ csv \in Files
    /\ raw_stations_data = None
    /\ fuel_stations = <<>>
    /\ route_points = <<>>
    /\ total_distance_miles = 0
    /\ pc = "idle"
    /\ fuel_stops = <<>>
    /\ total_fuel_cost = Rat(0, 1)
    /\ remaining_range = max_range_miles
    /\ distance_covered = 0
    /\ route_index = 0
    /\ target_position = None
    /\ segment_distance = 0
    /\ result = None
    /\ file_reads = 0

\* find_optimal_fuel_stops, lines 112-123: the station list is rebuilt for
\* the route, then route_points[0] raises IndexError on an empty route
Call(pts, total) ==
    /\ pc = "idle"
    /\ route_points' = pts
    /\ total_distance_miles' = total
    /\ raw_stations_data' =
           IF raw_stations_data # None THEN raw_stations_data ELSE LoadRows(csv)
    /\ fuel_stations' = GetStationsNearRoute(raw_stations_data', pts)
    /\ fuel_stops' = <<>>
    /\ total_fuel_cost' = Rat(0, 1)
    /\ IF pts = <<>>
       THEN /\ pc' = "raised"
            /\ result' = [error |-> "IndexError"]
            /\ UNCHANGED <<remaining_range, distance_covered, route_index>>
       ELSE /\ pc' = "loop"
            /\ result' = None
            /\ remaining_range' = max_range_miles
            /\ distance_covered' = 0
            /\ route_index' = 0
    /\ file_reads' = IF raw_stations_data = None THEN file_reads + 1
                     ELSE file_reads
    /\ UNCHANGED <<csv, target_position, segment_distance>>

\* lines 125-138: one pass of the loop up to the refuel test
Advance ==
    /\ pc = "loop"
    /\ distance_covered < total_distance_miles
    /\ LET adv == AdvanceAlongRoute(route_points, route_index,
                      DistanceToNextFuel(remaining_range, total_distance_miles,
                                         distance_covered))
       IN  /\ target_position' = adv.pos
           /\ route_index' = adv.idx
           /\ segment_distance' = adv.dist
           /\ distance_covered' = distance_covered + adv.dist
           /\ remaining_range' = remaining_range - adv.dist
    /\ pc' = "check"
    /\ UNCHANGED <<csv, file_reads, raw_stations_data, fuel_stations, route_points,
                   total_distance_miles, fuel_stops, total_fuel_cost, result>>

\* lines 141-168: refuel at the cheapest nearby station
RefuelAtStation ==
    /\ pc = "check"
    /\ NeedsRefuel(distance_covered, total_distance_miles, remaining_range)
    /\ LET nearby_stations == FindNearbyStations(fuel_stations, target_position)
       IN  /\ nearby_stations # <<>>
           /\ LET best_station == BestStation(nearby_stations)
              IN  /\ fuel_stops' = Append(fuel_stops,
                         StationStop(best_station, remaining_range,
                                     distance_covered))
                  /\ total_fuel_cost' = RAdd(total_fuel_cost,
                         FuelCost(GallonsNeeded(remaining_range),
                                  best_station.price))
    /\ remaining_range' = max_range_miles
    /\ pc' = "loop"
    /\ UNCHANGED <<csv, file_reads, raw_stations_data, fuel_stations, route_points,
                   total_distance_miles, distance_covered, route_index,
                   target_position, segment_distance, result>>

\* lines 141-145, 169-194: no station nearby, refuel at an estimated price
RefuelEstimated ==
    /\ pc = "check"
    /\ NeedsRefuel(distance_covered, total_distance_miles, remaining_range)
    /\ FindNearbyStations(fuel_stations, target_position) = <<>>
    /\ LET average_price == AveragePrice(fuel_stations)
       IN  /\ fuel_stops' = Append(fuel_stops,
                  EstimatedStop(average_price, target_position,
                                remaining_range, distance_covered))
           /\ total_fuel_cost' = RAdd(total_fuel_cost,
                  FuelCost(GallonsNeeded(remaining_range), average_price))
    /\ remaining_range' = max_range_miles
    /\ pc' = "loop"
    /\ UNCHANGED <<csv, file_reads, raw_stations_data, fuel_stations, route_points,
                   total_distance_miles, distance_covered, route_index,
                   target_position, segment_distance, result>>

\* line 141 false: back to the loop test
NoRefuel ==
    /\ pc = "check"
    /\ ~NeedsRefuel(distance_covered, total_distance_miles, remaining_range)
    /\ pc' = "loop"
    /\ UNCHANGED <<csv, file_reads, raw_stations_data, fuel_stations, route_points,
                   total_distance_miles, result>>
    /\ UNCHANGED locals

\* lines 125, 196-209: the loop test fails, the plan is returned
Return ==
    /\ pc = "loop"
    /\ ~(distance_covered < total_distance_miles)
    /\ result' = [fuel_stops      |-> fuel_stops,
                  total_fuel_cost |-> Round2(total_fuel_cost),
                  total_gallons   |-> Round2(TotalGallons(total_distance_miles)),
                  number_of_stops |-> Len(fuel_stops),
                  vehicle_mpg     |-> mpg,
                  vehicle_range   |-> max_range_miles]
    /\ pc' = "done"
    /\ UNCHANGED <<csv, file_reads, raw_stations_data, fuel_stations, route_points,
                   total_distance_miles>>
    /\ UNCHANGED locals

Next ==
    \/ \E pts \in Routes, total \in Totals : Call(pts, total)
    \/ Advance
    \/ RefuelAtStation
    \/ RefuelEstimated
    \/ NoRefuel
    \/ Return

Spec == Init /\ [][Next]_vars

(***************************************************************************)
(* Helpers of the properties                                               *)
(***************************************************************************)
RECURSIVE PolylineLength(_)
PolylineLength(pts) ==
    IF Len(pts) < 2 THEN 0
    ELSE geodesic(pts[1], pts[2]) + PolylineLength(Tail(pts))

\* distance_from_start of stop i of a plan; 0 for the start (i = 0) and the
\* total distance for the end (i = number of stops + 1)
Milestone(stops, total, i) ==
    IF i = 0 THEN Rat(0, 1)
    ELSE IF i > Len(stops) THEN Rat(total, 1)
    ELSE stops[i].distance_from_start

RECURSIVE SumGallons(_, _)
SumGallons(stops, i) ==
    IF i = 0 THEN Rat(0, 1)
    ELSE RAdd(SumGallons(stops, i - 1), stops[i].gallons_purchased)

\* |a - b| <= tol for rationals
Within(a, b, tol) == RLeq(a, RAdd(b, tol)) /\ RLeq(b, RAdd(a, tol))

IsEstimated(stop) == "note" \in DOMAIN stop

(***************************************************************************)
(* C1 (stated as the claim has it; the code violates it).  Every pass of   *)
(* the planning loop strictly increases distance_covered, so the loop      *)
(* reaches distance_covered >= total_distance_miles for every route of at  *)
(* least one point, also when the total distance exceeds the length of the *)
(* polyline.                                                               *)
(***************************************************************************)
C1_EveryIterationAdvances ==
    [][(pc = "loop" /\ pc' = "check" /\ Len(route_points) >= 1)
          => distance_covered' > distance_covered]_vars

(***************************************************************************)
(* C2.  Range safety: in a returned plan the distance_from_start of        *)
(* consecutive stops, of the first stop from the start, and of the end of  *)
(* the trip from the last stop, never differ by more than max_range_miles. *)
(***************************************************************************)
C2_RangeSafety ==
    pc = "done" =>
        \A i \in 1..(Len(result.fuel_stops) + 1) :
            RLeq(Milestone(result.fuel_stops, total_distance_miles, i),
                 RAdd(Milestone(result.fuel_stops, total_distance_miles, i - 1),
                      Rat(max_range_miles, 1)))

C2_Witness ==
    /\ pc = "done"
    /\ Len(result.fuel_stops) = 2
    /\ total_distance_miles > 2 * max_range_miles

(***************************************************************************)
(* C3 (stated as the claim has it; the code violates it).  Whenever a      *)
(* refuel is decided, the remaining range on arrival is strictly positive. *)
(***************************************************************************)
C3_ArrivalRangePositive ==
    (pc = "check" /\ NeedsRefuel(distance_covered, total_distance_miles,
                                 remaining_range))
        => remaining_range > 0

(***************************************************************************)
(* C4 (stated as the claim has it; the code violates it).  A 1200 mile     *)
(* route over a polyline at least that long yields exactly 2 stops, about  *)
(* 400 and about 800 miles from the start (within 50 miles, half the       *)
(* buffer), and total_gallons = 120.0.                                     *)
(***************************************************************************)
C4_Example1200 ==
    (pc = "done" /\ total_distance_miles = 1200
                 /\ PolylineLength(route_points) >= 1200)
        => /\ result.number_of_stops = 2
           /\ Within(result.fuel_stops[1].distance_from_start, Rat(400, 1),
                     Rat(50, 1))
           /\ Within(result.fuel_stops[2].distance_from_start, Rat(800, 1),
                     Rat(50, 1))
           /\ result.total_gallons = Rat(120, 1)

(***************************************************************************)
(* C5.  No-stop case: when the total distance is at most max_range_miles   *)
(* - 100 no fuel stop is ever emitted and nothing is spent; the returned   *)
(* plan has an empty fuel_stops list, number_of_stops = 0 and              *)
(* total_fuel_cost = 0.  This includes total distance 0 (no iteration).    *)
(***************************************************************************)
C5_NoStopCase ==
    (pc # "idle" /\ total_distance_miles <= max_range_miles - 100)
        => /\ fuel_stops = <<>>
           /\ total_fuel_cost = Rat(0, 1)
           /\ pc = "done" => /\ result.fuel_stops = <<>>
                             /\ result.number_of_stops = 0
                             /\ result.total_fuel_cost = Rat(0, 1)

C5_Witness ==
    /\ pc = "done"
    /\ total_distance_miles = max_range_miles - 100
    /\ distance_covered = total_distance_miles
    /\ fuel_stations # <<>>

(***************************************************************************)
(* C6.  At every emitted stop, real or estimated: gallons purchased =      *)
(* (max_range_miles - remaining range on arrival) / mpg, cost = gallons x  *)
(* the price the stop is charged at (the station's price, or the fallback  *)
(* price of an estimated stop), both recorded rounded to 2 decimals and    *)
(* the unrounded cost added to total_fuel_cost; right after the stop       *)
(* remaining_range = max_range_miles.                                      *)
(***************************************************************************)
C6_PriceCharged(stop) ==
    IF IsEstimated(stop) THEN AveragePrice(fuel_stations)
    ELSE stop.price_per_gallon

C6_StopAccounting ==
    [][Len(fuel_stops') = Len(fuel_stops) + 1 =>
         LET stop    == fuel_stops'[Len(fuel_stops')]
             gallons == <<max_range_miles - remaining_range, mpg>>
             price   == C6_PriceCharged(stop)
             cost    == <<gallons[1] * price[1], gallons[2] * price[2]>>
         IN  /\ pc = "check"
             /\ SubSeq(fuel_stops', 1, Len(fuel_stops)) = fuel_stops
             /\ Within(stop.gallons_purchased, gallons, Rat(1, 200))
             /\ Within(stop.cost, cost, Rat(1, 200))
             /\ Within(stop.price_per_gallon, price, Rat(1, 200))
             /\ Within(total_fuel_cost', RAdd(total_fuel_cost, cost), Rat(0, 1))
             /\ remaining_range' = max_range_miles]_vars

\* a stop bought with range left in the tank, at a price whose cost needs
\* rounding
C6_Witness ==
    /\ fuel_stops # <<>>
    /\ ~IsEstimated(fuel_stops[1])
    /\ fuel_stops[1].gallons_purchased = Rat(44, 1)
    /\ fuel_stops[1].cost = Rat(14340, 100)
    /\ remaining_range = max_range_miles

(***************************************************************************)
(* C7 (stated as the claim has it; the code violates it).  In a returned   *)
(* plan total_gallons = total_distance_miles / mpg and the gallons         *)
(* purchased at the stops add up to total_gallons up to rounding (half a   *)
(* hundredth for each rounded figure).                                     *)
(***************************************************************************)
C7_StopsSumToTotalGallons ==
    pc = "done" =>
        /\ Within(result.total_gallons, <<total_distance_miles, mpg>>,
                  Rat(1, 200))
        /\ Within(SumGallons(result.fuel_stops, Len(result.fuel_stops)),
                  result.total_gallons,
                  Rat(Len(result.fuel_stops) + 1, 200))

(***************************************************************************)
(* C7 as amended.  In a returned plan total_gallons = total_distance_miles *)
(* / mpg, and the gallons purchased at the stops add up, up to rounding,   *)
(* to (distance_from_start of the last stop) / mpg (0 without a stop): the *)
(* fuel burnt up to the last stop.  The fuel of the last leg is not bought *)
(* on the trip, so the sum is below total_gallons by (total distance -     *)
(* last stop's distance) / mpg, at most max_range_miles / mpg.             *)
(***************************************************************************)
C7_StopsSumToLastStop ==
    pc = "done" =>
        LET n    == Len(result.fuel_stops)
            last == Milestone(result.fuel_stops, total_distance_miles, n)
            sum  == SumGallons(result.fuel_stops, n)
        IN  /\ Within(result.total_gallons, <<total_distance_miles, mpg>>,
                      Rat(1, 200))
            /\ Within(sum, <<last[1], last[2] * mpg>>, Rat(n + 1, 200))
            /\ RLeq(sum, result.total_gallons)
            /\ RLeq(result.total_gallons,
                    RAdd(sum, RAdd(Rat(max_range_miles, mpg), Rat(n + 1, 200))))

C7_Witness ==
    /\ pc = "done"
    /\ Len(result.fuel_stops) = 2
    /\ result.total_gallons = Rat(120, 1)
    /\ SumGallons(result.fuel_stops, 2) = Rat(100, 1)

(***************************************************************************)
(* C8.  Fallback: when a refuel is required and no station of              *)
(* self.fuel_stations lies in a state within state_radius_miles of the     *)
(* current position, nothing is raised: the next step appends an           *)
(* 'Estimated Station' stop at the current interpolated position, priced   *)
(* at the mean price of self.fuel_stations (rounded to 2 decimals), or at  *)
(* 3.5 when that list is empty, carrying a 'note', and refills the tank.   *)
(* Stops at real stations carry no note.                                   *)
(***************************************************************************)
C8_NoStationNearby ==
    \A i \in 1..Len(fuel_stations) :
        geodesic(US_STATE_COORDS[fuel_stations[i].state], target_position)
            > state_radius_miles

C8_MeanPrice ==
    IF fuel_stations = <<>> THEN <<35, 10>>
    ELSE LET sum == SumPrices(fuel_stations, Len(fuel_stations))
         IN  <<sum[1], sum[2] * Len(fuel_stations)>>

C8_FallbackCompleteness ==
    [][(pc = "check" /\ NeedsRefuel(distance_covered, total_distance_miles,
                                    remaining_range))
          => LET stop == fuel_stops'[Len(fuel_stops')]
             IN  /\ pc' = "loop"
                 /\ Len(fuel_stops') = Len(fuel_stops) + 1
                 /\ remaining_range' = max_range_miles
                 /\ IsEstimated(stop) <=> C8_NoStationNearby
                 /\ IsEstimated(stop) <=> stop.station_name = EstimatedStation
                 /\ IsEstimated(stop) =>
                        /\ stop.location.latitude = target_position
                        /\ Within(stop.price_per_gallon, C8_MeanPrice,
                                  Rat(1, 200))
                        /\ stop.price_per_gallon = Round2(stop.price_per_gallon)
                        /\ Within(stop.cost,
                                  <<(max_range_miles - remaining_range)
                                        * C8_MeanPrice[1],
                                    mpg * C8_MeanPrice[2]>>,
                                  Rat(1, 200))]_vars

\* an estimated stop priced at a mean that needs rounding (3.379 -> 3.38),
\* while stations were found near the route
C8_Witness ==
    /\ fuel_stops # <<>>
    /\ IsEstimated(fuel_stops[1])
    /\ Len(fuel_stations) = 2
    /\ fuel_stops[1].price_per_gallon = Rat(338, 100)
    /\ remaining_range = max_range_miles

(***************************************************************************)
(* C9 (stated as the claim has it; the code violates it).  A call with a   *)
(* zero-element route returns an empty plan or is rejected with a          *)
(* dedicated error; it never fails with an index-out-of-range access.      *)
(***************************************************************************)
C9_EmptyRouteHandled ==
    (pc # "idle" /\ route_points = <<>>)
        => \/ pc = "done" /\ result.fuel_stops = <<>>
           \/ pc = "raised" /\ result.error = "EmptyRouteError"

(***************************************************************************)
(* C10.  Dedup: the list built by _get_stations_near_route holds exactly   *)
(* one station for each (name, city, upper-cased stripped state) key of    *)
(* the raw records whose state is near the route, and its price is the     *)
(* minimum price of the raw records sharing the key, in whatever order     *)
(* they come.                                                              *)
(***************************************************************************)
C10_RawKey(r) == <<r.name, Strip(r.city), Strip(Upper(r.state))>>

C10_StationKey(st) == <<st.name, Strip(st.city), st.state>>

C10_Dedup ==
    pc # "idle" =>
        LET raw  == raw_stations_data
            near == StatesNearRoute(route_points)
        IN  /\ \A i, j \in 1..Len(fuel_stations) :
                   C10_StationKey(fuel_stations[i])
                       = C10_StationKey(fuel_stations[j]) => i = j
            /\ \A i \in 1..Len(raw) :
                   C10_RawKey(raw[i])[3] \in near =>
                       \E j \in 1..Len(fuel_stations) :
                           /\ C10_StationKey(fuel_stations[j]) = C10_RawKey(raw[i])
                           /\ RLeq(fuel_stations[j].price, raw[i].price)
            /\ \A j \in 1..Len(fuel_stations) :
                   \E i \in 1..Len(raw) :
                       /\ C10_RawKey(raw[i]) = C10_StationKey(fuel_stations[j])
                       /\ raw[i].price = fuel_stations[j].price
                       /\ C10_RawKey(raw[i])[3] \in near

\* two raw records of one key (the states differ in case and blanks), the
\* cheaper one second: one station survives, at the lower price
C10_Witness ==
    /\ pc # "idle"
    /\ Len(raw_stations_data) = 2
    /\ raw_stations_data[1].state # raw_stations_data[2].state
    /\ C10_RawKey(raw_stations_data[1]) = C10_RawKey(raw_stations_data[2])
    /\ RLess(raw_stations_data[2].price, raw_stations_data[1].price)
    /\ Len(fuel_stations) = 1
    /\ fuel_stations[1].price = raw_stations_data[2].price

(***************************************************************************)
(* _advance_along_route on its own: one call from index 0                  *)
(***************************************************************************)
Targets == {0, 160, 440, 500, 600, 760, 1200, 1300}

InitAdvance ==
    /\ csv = <<>>
    /\ raw_stations_data = None
    /\ fuel_stations = <<>>
    /\ route_points \in Routes \ {<<>>}
    /\ total_distance_miles = 0
    /\ pc = "idle"
    /\ fuel_stops = <<>>
    /\ total_fuel_cost = Rat(0, 1)
    /\ remaining_range = max_range_miles
    /\ distance_covered = 0
    /\ route_index = 0
    /\ target_position = None
    /\ segment_distance = 0
    /\ result = None
    /\ file_reads = 0

\* target_position, route_index, segment_distance =
\*     self._advance_along_route(route_points, 0, d)
AdvanceFromStart(d) ==
    /\ pc = "idle"
    /\ LET adv == AdvanceAlongRoute(route_points, 0, d)
       IN  /\ target_position' = adv.pos
           /\ route_index' = adv.idx
           /\ segment_distance' = adv.dist
    /\ pc' = "advanced"
    /\ UNCHANGED <<csv, file_reads, raw_stations_data, fuel_stations, route_points,
                   total_distance_miles, fuel_stops, total_fuel_cost,
                   remaining_range, distance_covered, result>>

NextAdvance == \E d \in Targets : AdvanceFromStart(d)

SpecAdvance == InitAdvance /\ [][NextAdvance]_vars

\* length of the first k segments of the polyline
CumLength(pts, k) == PolylineLength(SubSeq(pts, 1, k + 1))

(***************************************************************************)
(* C11.  _advance_along_route(points, 0, d) travels min(d, length of the   *)
(* polyline).  For d <= length it returns d, the index of the start of the *)
(* first segment that reaches along-route distance d, and the position     *)
(* interpolated linearly between that segment's endpoints (the segment's   *)
(* start on a zero-length segment); for d > length it returns the last     *)
(* point, the last index and the length.                                   *)
(***************************************************************************)
C11_Result(pts, d, pos, idx, dist) ==
    LET length == PolylineLength(pts)
    IN  IF d <= length
        THEN /\ dist = d
             /\ IF Len(pts) = 1
                THEN idx = 0 /\ pos = pts[1]
                ELSE /\ idx \in 0..(Len(pts) - 2)
                     /\ CumLength(pts, idx) <= d
                     /\ d <= CumLength(pts, idx + 1)
                     /\ \A j \in 0..(idx - 1) : CumLength(pts, j + 1) < d
                     /\ LET a   == pts[idx + 1]
                            b   == pts[idx + 2]
                            seg == geodesic(a, b)
                        IN  IF seg = 0 THEN pos = a
                            ELSE (pos - a) * seg = (b - a) * (d - CumLength(pts, idx))
        ELSE /\ dist = length
             /\ idx = Len(pts) - 1
             /\ pos = pts[Len(pts)]

C11_AdvanceFromStart ==
    [][\A d \in Targets :
          AdvanceFromStart(d) =>
              C11_Result(route_points, d, target_position', route_index',
                         segment_distance')]_vars

\* the target lies inside the second segment of <<0, 440, 600>>
C11_Witness ==
    /\ pc = "advanced"
    /\ route_points = <<0, 440, 600>>
    /\ route_index = 1
    /\ target_position = 500
    /\ segment_distance = 500

(***************************************************************************)
(* C12.  _find_nearby_stations(position) returns exactly the stations of   *)
(* self.fuel_stations whose state's reference coordinate is within         *)
(* state_radius_miles of the position, in ascending order of price (the    *)
(* empty list when there is none); the stop is made at a station of        *)
(* minimum price in that list, the first of them in the order of           *)
(* self.fuel_stations when several have that price.                        *)
(***************************************************************************)
C12_NearIndexes(position) ==
    {i \in 1..Len(fuel_stations) :
        geodesic(US_STATE_COORDS[fuel_stations[i].state], position)
            <= state_radius_miles}

\* the index in self.fuel_stations of the station an entry was copied from
C12_CatalogIndex(entry) ==
    CHOOSE i \in 1..Len(fuel_stations) :
        /\ fuel_stations[i].name = entry.name
        /\ fuel_stations[i].city = entry.city
        /\ fuel_stations[i].state = entry.state

C12_IsCopyOf(entry, station, position) ==
    /\ entry.name = station.name
    /\ entry.city = station.city
    /\ entry.state = station.state
    /\ entry.price = station.price
    /\ entry.latitude = station.latitude
    /\ entry.distance_from_route = geodesic(position, station.latitude)

C12_NearbyList(position) ==
    LET nearby == FindNearbyStations(fuel_stations, position)
        near   == C12_NearIndexes(position)
    IN  /\ Len(nearby) = Cardinality(near)
        /\ \A i \in near :
               \E k \in 1..Len(nearby) :
                   C12_IsCopyOf(nearby[k], fuel_stations[i], position)
        /\ \A k, l \in 1..Len(nearby) :
               k < l =>
                   /\ RLeq(nearby[k].price, nearby[l].price)
                   /\ nearby[k].price = nearby[l].price =>
                          C12_CatalogIndex(nearby[k]) < C12_CatalogIndex(nearby[l])

\* the first station of minimum price among the near ones
C12_Cheapest(position) ==
    CHOOSE i \in C12_NearIndexes(position) :
        \A j \in C12_NearIndexes(position) :
            \/ RLess(fuel_stations[i].price, fuel_stations[j].price)
            \/ fuel_stations[i].price = fuel_stations[j].price /\ i <= j

C12_NearbyAndChoice ==
    [][(pc = "check" /\ NeedsRefuel(distance_covered, total_distance_miles,
                                    remaining_range))
          => /\ C12_NearbyList(target_position)
             /\ Len(fuel_stops') = Len(fuel_stops) + 1
             /\ LET stop == fuel_stops'[Len(fuel_stops')]
                IN  IF C12_NearIndexes(target_position) = {}
                    THEN IsEstimated(stop)
                    ELSE LET best == fuel_stations[C12_Cheapest(target_position)]
                         IN  /\ ~IsEstimated(stop)
                             /\ stop.station_name = best.name
                             /\ stop.location.city = best.city
                             /\ stop.location.state = best.state
                             /\ stop.price_per_gallon = best.price]_vars

\* two stations of one state at one price: the stop is at the one that
\* comes first in self.fuel_stations
C12_Witness ==
    /\ Len(fuel_stations) = 2
    /\ fuel_stations[1].price = fuel_stations[2].price
    /\ fuel_stations[1].state = fuel_stations[2].state
    /\ fuel_stations[1].name = <<"B">>
    /\ fuel_stations[2].name = <<"A">>
    /\ fuel_stops # <<>>
    /\ fuel_stops[1].station_name = <<"B">>

(***************************************************************************)
(* _load_raw_stations_data on its own, on a price table whose 'Retail      *)
(* Price' column is still text                                             *)
(***************************************************************************)
Digits == <<"0", "1", "2", "3", "4", "5", "6", "7", "8", "9">>

IsDigit(c) == \E k \in 1..10 : Digits[k] = c

DigitVal(c) == (CHOOSE k \in 1..10 : Digits[k] = c) - 1

RECURSIVE DigitsValue(_)
DigitsValue(s) ==
    IF s = <<>> THEN 0
    ELSE 10 * DigitsValue(SubSeq(s, 1, Len(s) - 1)) + DigitVal(s[Len(s)])

RECURSIVE Pow10(_)
Pow10(n) == IF n = 0 THEN 1 ELSE 10 * Pow10(n - 1)

\* float(text) on plain decimal text: blanks around it are ignored, then an
\* optional sign, digits and at most one point; anything else is a
\* ValueError (ok = FALSE)
ParseFloat(text) ==
    LET t      == Strip(text)
        signed == t # <<>> /\ Head(t) \in {"-", "+"}
        body   == IF signed THEN Tail(t) ELSE t
        dots   == {i \in 1..Len(body) : body[i] = "."}
        digits == SelectSeq(body, IsDigit)
        wellformed ==
            /\ digits # <<>>
            /\ Cardinality(dots) <= 1
            /\ Len(digits) + Cardinality(dots) = Len(body)
        decimals == IF dots = {} THEN 0
                    ELSE Len(body) - (CHOOSE i \in dots : TRUE)
        magnitude == Rat(DigitsValue(digits), Pow10(decimals))
    IN  IF ~wellformed THEN [ok |-> FALSE]
        ELSE [ok    |-> TRUE,
              value |-> IF signed /\ Head(t) = "-"
                        THEN <<-magnitude[1], magnitude[2]>>
                        ELSE magnitude]

\* lines 29-47: every row is stripped and its price parsed; the first
\* exception abandons the load and leaves the cache unset
LoadRawStationsData(file) ==
    IF \E i \in 1..Len(file) : ~ParseFloat(file[i].price).ok
    THEN [ok |-> FALSE]
    ELSE [ok       |-> TRUE,
          stations |-> LoadRows([i \in 1..Len(file) |->
                          [file[i] EXCEPT !.price = ParseFloat(@).value]])]

Blank == <<" ">>

TextRows ==
    { Row(name, city, state, price) :
        name  \in {<<"A">>, Blank},
        city  \in {<<"X">>, <<>>},
        state \in {<<"T", "X">>, <<>>},
        price \in {<<"3", ".", "2", "5">>, <<" ", "3", ".", "5">>, <<"0">>,
                   <<"-", "1">>, <<"a", "b", "c">>} }

TextFiles == SeqsUpTo(TextRows, MaxRows)

InitLoad ==
    /\ csv \in TextFiles
    /\ raw_stations_data = None
    /\ fuel_stations = <<>>
    /\ route_points = <<>>
    /\ total_distance_miles = 0
    /\ pc = "idle"
    /\ fuel_stops = <<>>
    /\ total_fuel_cost = Rat(0, 1)
    /\ remaining_range = max_range_miles
    /\ distance_covered = 0
    /\ route_index = 0
    /\ target_position = None
    /\ segment_distance = 0
    /\ result = None
    /\ file_reads = 0

\* the first call of self._load_raw_stations_data() (line 55)
LoadCall ==
    /\ pc = "idle"
    /\ raw_stations_data = None
    /\ LET loaded == LoadRawStationsData(csv)
       IN  IF loaded.ok
           THEN /\ raw_stations_data' = loaded.stations
                /\ pc' = "loaded"
                /\ result' = None
           ELSE /\ raw_stations_data' = None
                /\ pc' = "raised"
                /\ result' = [error |-> "Error loading fuel prices"]
    /\ file_reads' = file_reads + 1
    /\ UNCHANGED <<csv, fuel_stations, route_points, total_distance_miles>>
    /\ UNCHANGED locals

NextLoad == LoadCall

SpecLoad == InitLoad /\ [][NextLoad]_vars

(***************************************************************************)
(* C13 (stated as the claim has it; the code violates it).  The load fails *)
(* as a whole, leaving the cache unset, whenever a row of the price table  *)
(* has an empty name, city or state, or a price that does not parse or is  *)
(* not strictly positive: a load that succeeds has accepted no such row.   *)
(***************************************************************************)
C13_RowIsValid(row) ==
    /\ Strip(row.name) # <<>>
    /\ Strip(row.city) # <<>>
    /\ Strip(row.state) # <<>>
    /\ ParseFloat(row.price).ok
    /\ ParseFloat(row.price).value[1] > 0

C13_BadRowsRejected ==
    /\ pc = "loaded" => \A i \in 1..Len(csv) : C13_RowIsValid(csv[i])
    /\ pc = "raised" => raw_stations_data = None

(***************************************************************************)
(* OptimalRouteView.post: every request builds its own FuelOptimizer       *)
(* (views.py line 39) and plans with it (lines 47-50)                      *)
(***************************************************************************)
\* the previous request has ended; the next one starts on a new instance
NewRequest ==
    /\ pc \in {"done", "raised"}
    /\ file_reads < MaxRequests
    /\ raw_stations_data' = None
    /\ fuel_stations' = <<>>
    /\ pc' = "idle"
    /\ result' = None
    /\ route_points' = <<>>
    /\ total_distance_miles' = 0
    /\ fuel_stops' = <<>>
    /\ total_fuel_cost' = Rat(0, 1)
    /\ remaining_range' = max_range_miles
    /\ distance_covered' = 0
    /\ route_index' = 0
    /\ target_position' = None
    /\ segment_distance' = 0
    /\ UNCHANGED <<csv, file_reads>>

NextServer == Next \/ NewRequest

SpecServer == Init /\ [][NextServer]_vars

(***************************************************************************)
(* C14 (stated as the claim has it; the code violates it).  The raw price  *)
(* table is built once and cached for the life of the process: over any    *)
(* sequence of requests the price file is read at most once, the later     *)
(* requests reusing the cached rows.                                       *)
(***************************************************************************)
C14_FileReadAtMostOnce == file_reads <= 1

(***************************************************************************)
(* C15 (stated as the claim has it; the code violates it).  After every    *)
(* pass of the planning loop the position returned by                      *)
(* _advance_along_route is the point of the polyline at along-route        *)
(* distance distance_covered: advancing pass after pass from the returned  *)
(* index ends where one advance of distance_covered from index 0 ends,     *)
(* also when a pass stopped inside a segment.  (Stated for routes whose    *)
(* polyline is at least as long as the total distance.)                    *)
(***************************************************************************)
C15_PositionMatchesDistance ==
    (pc = "check" /\ total_distance_miles <= PolylineLength(route_points))
        => target_position
               = AdvanceAlongRoute(route_points, 0, distance_covered).pos

(***************************************************************************)
(* Two calls of find_optimal_fuel_stops interleaved on one FuelOptimizer,  *)
(* the cache warm.  The state holds the locals of one call; of the other   *)
(* call only its effect on the instance is kept, the assignment of line    *)
(* 112, which may fall between any two steps of the first call's loop.     *)
(***************************************************************************)
OtherRoutes == {<<0>>, <<600, 1200>>}

ConcurrentCall(pts) ==
    /\ pc \in {"loop", "check"}
    /\ fuel_stations' = GetStationsNearRoute(raw_stations_data, pts)
    /\ UNCHANGED <<csv, file_reads, raw_stations_data, route_points,
                   total_distance_miles, pc, result>>
    /\ UNCHANGED locals

NextShared == Next \/ \E pts \in OtherRoutes : ConcurrentCall(pts)

SpecShared == Init /\ [][NextShared]_vars

(***************************************************************************)
(* C16 (stated as the claim has it; the code violates it).  Planning is    *)
(* reentrant once the cache is warm: while a call is in its loop no field  *)
(* of the instance is written, and every stop of the call is made at a     *)
(* station near the call's own route, or estimated at the mean price of    *)
(* the stations near its own route.                                        *)
(***************************************************************************)
C16_FromOwnRoute(stop) ==
    LET own == GetStationsNearRoute(raw_stations_data, route_points)
    IN  IF IsEstimated(stop)
        THEN stop.price_per_gallon = Round2(AveragePrice(own))
        ELSE \E i \in 1..Len(own) :
                 /\ own[i].name = stop.station_name
                 /\ own[i].city = stop.location.city
                 /\ own[i].state = stop.location.state
                 /\ own[i].price = stop.price_per_gallon

C16_NoWriteDuringPlanning ==
    pc \in {"loop", "check"} =>
        /\ fuel_stations' = fuel_stations
        /\ raw_stations_data' = raw_stations_data

C16_StopsFromOwnRoute ==
    Len(fuel_stops') = Len(fuel_stops) + 1 =>
        C16_FromOwnRoute(fuel_stops'[Len(fuel_stops')])

C16_Reentrant ==
    [][C16_NoWriteDuringPlanning /\ C16_StopsFromOwnRoute]_vars

(***************************************************************************)
(* Routes long enough for the sampling of _get_stations_near_route to skip *)
(* points (step = len // 15 is 2 from 30 points on): every point at one    *)
(* place except one, which is sampled when its index from 0 is even and    *)
(* skipped when it is odd.                                                 *)
(***************************************************************************)
LongLen == 30

LongRoutes ==
    {[i \in 1..LongLen |-> IF i = k THEN far ELSE base] :
        base \in {0, 1200}, far \in {440, 600}, k \in {2, 3}}

NextRecall ==
    \/ \E pts \in Routes \cup LongRoutes, total \in Totals : Call(pts, total)
    \/ Advance
    \/ RefuelAtStation
    \/ RefuelEstimated
    \/ NoRefuel
    \/ Return

SpecRecall == Init /\ [][NextRecall]_vars

(***************************************************************************)
(* C17 (stated as the claim has it; the code violates it).  Region recall: *)
(* for a route of any length every state whose reference coordinate is     *)
(* within 250 miles of at least one point of the route is in the           *)
(* near-route state set, so every row of the price table that              *)
(* _find_nearby_stations could match at a refuel position of the route is  *)
(* represented in self.fuel_stations.                                      *)
(***************************************************************************)
C17_StatesNearAnyPoint(pts) ==
    {st \in DOMAIN US_STATE_COORDS :
        \E i \in 1..Len(pts) :
            geodesic(US_STATE_COORDS[st], pts[i]) <= state_route_miles}

C17_Loaded(row) ==
    \E j \in 1..Len(fuel_stations) :
        C10_StationKey(fuel_stations[j]) = C10_RawKey(row)

C17_RegionRecall ==
    pc \in {"loop", "check", "done"} =>
        /\ C17_StatesNearAnyPoint(route_points)
               \subseteq StatesNearRoute(route_points)
        /\ \A i \in 1..Len(raw_stations_data) :
               C10_RawKey(raw_stations_data[i])[3]
                       \in C17_StatesNearAnyPoint(route_points)
                   => C17_Loaded(raw_stations_data[i])
        /\ (pc = "check" /\ NeedsRefuel(distance_covered, total_distance_miles,
                                        remaining_range))
               => \A i \in 1..Len(raw_stations_data) :
                      C10_RawKey(raw_stations_data[i])[3]
                              \in StatesNearPosition(target_position)
                          => C17_Loaded(raw_stations_data[i])
====
